---- MODULE Spec2Model ----
(***************************************************************************)
(* A model of the token usage recorder of examples/callbacks.py            *)
(* (TokenUsageCallback) and of the asynchronous message loop of            *)
(* tests/test_basic_langchain.py.                                          *)
(*                                                                         *)
(* Python values are tagged records: [type |-> "dict", items |-> f] is a   *)
(* dict whose items are the function f, [type |-> "NoneType"] is None.     *)
(* A Python str that the code builds is a sequence of characters, so that  *)
(* formatting a number and reading it back are different computations.     *)
(***************************************************************************)
EXTENDS Integers, Sequences, FiniteSets, TLC

VARIABLES
    token_usage,    \* self.token_usage: the items of the stored dict
    input_tokens,   \* self.input_tokens
    output_tokens,  \* self.output_tokens
    total_tokens,   \* self.total_tokens
    called,         \* the latest call on the recorder and how it ended
    previous,       \* the call before it
    pc,             \* per thread: the line of on_llm_end it is about to run
    arg,            \* per thread: the response its on_llm_end was given
    usage,          \* per thread: the local variable usage of on_llm_end
    finished,       \* the threads whose on_llm_end has returned, in order
    messages,       \* the async loop: the list it iterates
    results,        \* the async loop: the list it appends to
    it,             \* the async loop: how many messages the for has taken
    msg,            \* the async loop: the loop variable
    result,         \* the async loop: the awaited value
    at,             \* the async loop: the statement it is about to run
    prog,           \* the example script that is run as __main__
    api_key,        \* os.getenv of the provider's API key in that run
    fn,             \* the function of the script that is running
    ip,             \* where in that function the run is
    idx,            \* how many items the function's for loop has taken
    constructed,    \* the LLM clients the function has tried to construct
    invoked,        \* the chain.invoke calls the function has made
    printed         \* what the function has printed

fields == <<token_usage, input_tokens, output_tokens, total_tokens>>
harness == <<called, previous>>
threads == <<pc, arg, usage, finished>>
loop == <<messages, results, it, msg, result, at>>
script == <<prog, api_key, fn, ip, idx, constructed, invoked, printed>>
vars == <<fields, harness, threads, loop, script>>

----------------------------------------------------------------------------
(* Bounds *)

MaxTok == 1     \* token counts are TokStep * (0 .. MaxTok)
TokStep == 12   \* so that counts of one and of two digits occur
MaxMsgs == 3    \* the longest message list the loop is given

TokenValues == {k * TokStep : k \in 0 .. MaxTok}

----------------------------------------------------------------------------
(* Python values *)

None == [type |-> "NoneType"]
Dict(m) == [type |-> "dict", items |-> m]
List(s) == [type |-> "list", items |-> s]
Str(s) == [type |-> "str", value |-> s]
EmptyItems == [k \in {} |-> 0]

\* bool(v): None, an empty dict, an empty list and "" are false.
Truthy(v) ==
    CASE v.type = "NoneType" -> FALSE
      [] v.type = "dict" -> DOMAIN v.items # {}
      [] v.type = "list" -> Len(v.items) > 0
      [] v.type = "str" -> v.value # ""

\* Whether v.get exists: of the values here only a dict has the method.
HasGet(v) == v.type = "dict"

\* dict.get(key, default) on the items m of a dict.
get(m, key, default) == IF key \in DOMAIN m THEN m[key] ELSE default

\* hasattr(response, 'llm_output')
hasattr_llm_output(response) == response.has_llm_output

----------------------------------------------------------------------------
(* The responses on_llm_end is given *)

KnownKeys == {"prompt_tokens", "completion_tokens", "total_tokens"}

\* A usage mapping may carry keys the recorder does not read.
ExtraItems == {EmptyItems, "prompt_tokens_details" :> Dict(EmptyItems)}

UsageMappings ==
    {m @@ e : m \in UNION {[S -> TokenValues] : S \in SUBSET KnownKeys},
              e \in ExtraItems}

Response(llm_output) == [has_llm_output |-> TRUE, llm_output |-> llm_output]
NoAttrResponse == [has_llm_output |-> FALSE]

ModelName == "model_name" :> Str("gpt-4o-mini")

WithUsage(u) == Response(Dict(("token_usage" :> u) @@ ModelName))

Responses ==
    {NoAttrResponse,
     Response(None),
     Response(Dict(EmptyItems)),
     Response(Dict(ModelName)),
     Response(List(<<TokStep>>)),
     WithUsage(None),
     WithUsage(List(<<TokStep>>))}
    \cup {WithUsage(Dict(m)) : m \in UsageMappings}

----------------------------------------------------------------------------
(* TokenUsageCallback *)

Self ==
    [token_usage |-> token_usage, input_tokens |-> input_tokens,
     output_tokens |-> output_tokens, total_tokens |-> total_tokens]

\* __init__
TokenUsageCallback ==
    [token_usage |-> EmptyItems, input_tokens |-> 0,
     output_tokens |-> 0, total_tokens |-> 0]

Returned(self) == [self |-> self, outcome |-> "returned"]
Raised(self, exception) == [self |-> self, outcome |-> exception]

\* capture, were each count added to the stored count.
capture_accumulating(self, u) ==
    [input_tokens |-> self.input_tokens + get(u, "prompt_tokens", 0),
     output_tokens |-> self.output_tokens + get(u, "completion_tokens", 0),
     total_tokens |-> self.total_tokens + get(u, "total_tokens", 0),
     token_usage |-> u]

\* capture, were a missing key to leave the stored count as it is.
capture_keeping_missing(self, u) ==
    [input_tokens |-> get(u, "prompt_tokens", self.input_tokens),
     output_tokens |-> get(u, "completion_tokens", self.output_tokens),
     total_tokens |-> get(u, "total_tokens", self.total_tokens),
     token_usage |-> u]

\* capture, were the total computed from the two other counts.
capture_summing_total(self, u) ==
    [input_tokens |-> get(u, "prompt_tokens", 0),
     output_tokens |-> get(u, "completion_tokens", 0),
     total_tokens |-> get(u, "prompt_tokens", 0)
                      + get(u, "completion_tokens", 0),
     token_usage |-> u]

\* capture, were the usage dict itself not kept.
capture_dropping_usage(self, u) ==
    [input_tokens |-> get(u, "prompt_tokens", 0),
     output_tokens |-> get(u, "completion_tokens", 0),
     total_tokens |-> get(u, "total_tokens", 0),
     token_usage |-> self.token_usage]

\* on_llm_end, lines 20-23: the recorder after the three counts are read
\* from the usage dict with items u and the dict itself is kept.
capture(self, u) ==
    [input_tokens |-> get(u, "prompt_tokens", 0),
     output_tokens |-> get(u, "completion_tokens", 0),
     total_tokens |-> get(u, "total_tokens", 0),
     token_usage |-> u]

\* on_llm_end, were a response without llm_output to clear the recorder.
on_llm_end_clearing(self, response) ==
    IF hasattr_llm_output(response) /\ Truthy(response.llm_output)
    THEN IF ~HasGet(response.llm_output)
         THEN Raised(self, "AttributeError")
         ELSE LET u == get(response.llm_output.items, "token_usage",
                           Dict(EmptyItems))
              IN  IF ~HasGet(u)
                  THEN Raised(self, "AttributeError")
                  ELSE Returned(capture(self, u.items))
    ELSE Returned(TokenUsageCallback)

\* on_llm_end: the recorder after the call and how the call ended. A .get on
\* a value that has no such method raises AttributeError before any field is
\* assigned.
on_llm_end(self, response) ==
    IF hasattr_llm_output(response) /\ Truthy(response.llm_output)
    THEN IF ~HasGet(response.llm_output)
         THEN Raised(self, "AttributeError")
         ELSE LET u == get(response.llm_output.items, "token_usage",
                           Dict(EmptyItems))
              IN  IF ~HasGet(u)
                  THEN Raised(self, "AttributeError")
                  ELSE Returned(capture(self, u.items))
    ELSE Returned(self)

\* reset, were the stored dict left in place.
reset_keeping_usage(self) ==
    [token_usage |-> self.token_usage, input_tokens |-> 0,
     output_tokens |-> 0, total_tokens |-> 0]

\* reset
reset(self) ==
    [token_usage |-> EmptyItems, input_tokens |-> 0,
     output_tokens |-> 0, total_tokens |-> 0]

Digits == <<"0", "1", "2", "3", "4", "5", "6", "7", "8", "9">>

\* str(n) of a non-negative int, as the f-string formats it.
RECURSIVE str(_)
str(n) == IF n < 10 THEN <<Digits[n + 1]>>
          ELSE str(n \div 10) \o <<Digits[(n % 10) + 1]>>

\* get_usage_string, were the total tested in place of the stored dict.
get_usage_string_by_total(self) ==
    IF self.total_tokens # 0
    THEN <<" ", "[", "U+1F4CA", " ", "T", "o", "k", "e", "n", "s", ":", " ">>
         \o str(self.input_tokens) \o <<" ", "i", "n", ",", " ">>
         \o str(self.output_tokens) \o <<" ", "o", "u", "t", ",">>
         \o <<" ">> \o str(self.total_tokens)
         \o <<" ", "t", "o", "t", "a", "l", "]">>
    ELSE <<>>

\* get_usage_string, were the input and output counts exchanged.
get_usage_string_swapped(self) ==
    IF DOMAIN self.token_usage # {}
    THEN <<" ", "[", "U+1F4CA", " ", "T", "o", "k", "e", "n", "s", ":", " ">>
         \o str(self.output_tokens) \o <<" ", "i", "n", ",", " ">>
         \o str(self.input_tokens) \o <<" ", "o", "u", "t", ",">>
         \o <<" ">> \o str(self.total_tokens)
         \o <<" ", "t", "o", "t", "a", "l", "]">>
    ELSE <<>>

\* get_usage_string: the text returned; "U+1F4CA" stands for the one
\* character of that code point.
get_usage_string(self) ==
    IF DOMAIN self.token_usage # {}
    THEN <<" ", "[", "U+1F4CA", " ", "T", "o", "k", "e", "n", "s", ":", " ">>
         \o str(self.input_tokens) \o <<" ", "i", "n", ",", " ">>
         \o str(self.output_tokens) \o <<" ", "o", "u", "t", ",">>
         \o <<" ">> \o str(self.total_tokens)
         \o <<" ", "t", "o", "t", "a", "l", "]">>
    ELSE <<>>

----------------------------------------------------------------------------
(* One recorder, called by one caller: each call runs to its end *)

Call(op, args, outcome, ret) ==
    [op |-> op, args |-> args, outcome |-> outcome, ret |-> ret]

Store(self) ==
    /\ token_usage' = self.token_usage
    /\ input_tokens' = self.input_tokens
    /\ output_tokens' = self.output_tokens
    /\ total_tokens' = self.total_tokens

IdleThreads ==
    /\ pc = [t \in {} |-> 0]
    /\ arg = [t \in {} |-> 0]
    /\ usage = [t \in {} |-> 0]
    /\ finished = <<>>

IdleLoop ==
    /\ messages = <<>>
    /\ results = <<>>
    /\ it = 0
    /\ msg = None
    /\ result = ""
    /\ at = "idle"

IdleScript ==
    /\ prog = "none"
    /\ api_key = None
    /\ fn = "none"
    /\ ip = "none"
    /\ idx = 0
    /\ constructed = <<>>
    /\ invoked = <<>>
    /\ printed = <<>>

Init ==
    /\ token_usage = TokenUsageCallback.token_usage
    /\ input_tokens = TokenUsageCallback.input_tokens
    /\ output_tokens = TokenUsageCallback.output_tokens
    /\ total_tokens = TokenUsageCallback.total_tokens
    /\ called = Call("__init__", <<>>, "returned", <<>>)
    /\ previous = Call("none", <<>>, "returned", <<>>)
    /\ IdleThreads
    /\ IdleLoop
    /\ IdleScript

Construct ==
    /\ Store(TokenUsageCallback)
    /\ called' = Call("__init__", <<>>, "returned", <<>>)
    /\ previous' = called
    /\ UNCHANGED <<threads, loop, script>>

OnLlmEnd ==
    \E response \in Responses :
        LET r == on_llm_end(Self, response)
        IN  /\ Store(r.self)
            /\ called' = Call("on_llm_end", <<response>>, r.outcome, <<>>)
            /\ previous' = called
            /\ UNCHANGED <<threads, loop, script>>

Reset ==
    /\ Store(reset(Self))
    /\ called' = Call("reset", <<>>, "returned", <<>>)
    /\ previous' = called
    /\ UNCHANGED <<threads, loop, script>>

GetUsageString ==
    /\ called' = Call("get_usage_string", <<>>, "returned",
                      get_usage_string(Self))
    /\ previous' = called
    /\ UNCHANGED <<fields, threads, loop, script>>

Next == Construct \/ OnLlmEnd \/ Reset \/ GetUsageString

Spec == Init /\ [][Next]_vars

----------------------------------------------------------------------------
(* One recorder shared by two threads, each making one on_llm_end call. The *)
(* recorder takes no lock, so the threads may be switched between any two   *)
(* lines of on_llm_end.                                                     *)

Threads == {"t1", "t2"}

ConcResponses ==
    {NoAttrResponse}
    \cup {WithUsage(Dict(m)) : m \in [KnownKeys -> TokenValues]}

ConcInit ==
    /\ token_usage = TokenUsageCallback.token_usage
    /\ input_tokens = TokenUsageCallback.input_tokens
    /\ output_tokens = TokenUsageCallback.output_tokens
    /\ total_tokens = TokenUsageCallback.total_tokens
    /\ called = Call("__init__", <<>>, "returned", <<>>)
    /\ previous = Call("none", <<>>, "returned", <<>>)
    /\ pc = [t \in Threads |-> "idle"]
    /\ arg = [t \in Threads |-> NoAttrResponse]
    /\ usage = [t \in Threads |-> None]
    /\ finished = <<>>
    /\ IdleLoop
    /\ IdleScript

Goto(t, line) == pc' = [pc EXCEPT ![t] = line]

Finish(t) == Goto(t, "done") /\ finished' = Append(finished, t)

\* The framework calls the handler with the response of thread t's request.
Invoke(t) ==
    /\ pc[t] = "idle"
    /\ \E response \in ConcResponses : arg' = [arg EXCEPT ![t] = response]
    /\ Goto(t, "line18")
    /\ UNCHANGED <<fields, harness, usage, finished, loop, script>>

\* if hasattr(response, 'llm_output') and response.llm_output:
Line18(t) ==
    /\ pc[t] = "line18"
    /\ IF hasattr_llm_output(arg[t]) /\ Truthy(arg[t].llm_output)
       THEN Goto(t, "line19") /\ UNCHANGED finished
       ELSE Finish(t)
    /\ UNCHANGED <<fields, harness, arg, usage, loop, script>>

\* usage = response.llm_output.get('token_usage', {})
Line19(t) ==
    /\ pc[t] = "line19"
    /\ IF HasGet(arg[t].llm_output)
       THEN /\ usage' = [usage EXCEPT ![t] =
                           get(arg[t].llm_output.items, "token_usage",
                               Dict(EmptyItems))]
            /\ Goto(t, "line20") /\ UNCHANGED finished
       ELSE Finish(t) /\ UNCHANGED usage
    /\ UNCHANGED <<fields, harness, arg, loop, script>>

\* self.input_tokens = usage.get('prompt_tokens', 0)
Line20(t) ==
    /\ pc[t] = "line20"
    /\ IF HasGet(usage[t])
       THEN /\ input_tokens' = get(usage[t].items, "prompt_tokens", 0)
            /\ Goto(t, "line21") /\ UNCHANGED finished
       ELSE Finish(t) /\ UNCHANGED input_tokens
    /\ UNCHANGED <<token_usage, output_tokens, total_tokens, harness, arg,
                   usage, loop, script>>

\* self.output_tokens = usage.get('completion_tokens', 0)
Line21(t) ==
    /\ pc[t] = "line21"
    /\ output_tokens' = get(usage[t].items, "completion_tokens", 0)
    /\ Goto(t, "line22")
    /\ UNCHANGED <<token_usage, input_tokens, total_tokens, harness, arg,
                   usage, finished, loop, script>>

\* self.total_tokens = usage.get('total_tokens', 0)
Line22(t) ==
    /\ pc[t] = "line22"
    /\ total_tokens' = get(usage[t].items, "total_tokens", 0)
    /\ Goto(t, "line23")
    /\ UNCHANGED <<token_usage, input_tokens, output_tokens, harness, arg,
                   usage, finished, loop, script>>

\* self.token_usage = usage
Line23(t) ==
    /\ pc[t] = "line23"
    /\ token_usage' = usage[t].items
    /\ Finish(t)
    /\ UNCHANGED <<input_tokens, output_tokens, total_tokens, harness, arg,
                   usage, loop, script>>

ConcNext ==
    \E t \in Threads :
        \/ Invoke(t) \/ Line18(t) \/ Line19(t) \/ Line20(t)
        \/ Line21(t) \/ Line22(t) \/ Line23(t)

ConcSpec == ConcInit /\ [][ConcNext]_vars

----------------------------------------------------------------------------
(* The asynchronous loop of test_async_message_handling *)

Contents == {"Hello", "Hi there!", "How are you?"}

\* HumanMessage(content=...) and AIMessage(content=...)
Messages == [type : {"human", "ai"}, content : Contents]

MessageLists == UNION {[1 .. n -> Messages] : n \in 0 .. MaxMsgs}

\* The coroutine process_message: it awaits nothing, so awaiting it runs it
\* to its return.
process_message(m) == "Processed: " \o m.content

LoopInit ==
    /\ token_usage = TokenUsageCallback.token_usage
    /\ input_tokens = TokenUsageCallback.input_tokens
    /\ output_tokens = TokenUsageCallback.output_tokens
    /\ total_tokens = TokenUsageCallback.total_tokens
    /\ called = Call("__init__", <<>>, "returned", <<>>)
    /\ previous = Call("none", <<>>, "returned", <<>>)
    /\ IdleThreads
    /\ messages \in MessageLists
    /\ results = <<>>
    /\ it = 0
    /\ msg = None
    /\ result = ""
    /\ at = "for"
    /\ IdleScript

\* for msg in messages: the next message, or the end of the loop.
For ==
    /\ at = "for"
    /\ IF it < Len(messages)
       THEN msg' = messages[it + 1] /\ it' = it + 1 /\ at' = "await"
       ELSE at' = "done" /\ UNCHANGED <<msg, it>>
    /\ UNCHANGED <<fields, harness, threads, script,
                   messages, results, result>>

\* result = await process_message(msg)
Await ==
    /\ at = "await"
    /\ result' = process_message(msg)
    /\ at' = "append"
    /\ UNCHANGED <<fields, harness, threads, script,
                   messages, results, it, msg>>

\* results.append(result), were the result put at the front.
AppendResultInFront ==
    /\ at = "append"
    /\ results' = <<result>> \o results
    /\ at' = "for"
    /\ UNCHANGED <<fields, harness, threads, script,
                   messages, it, msg, result>>

\* results.append(result)
AppendResult ==
    /\ at = "append"
    /\ results' = Append(results, result)
    /\ at' = "for"
    /\ UNCHANGED <<fields, harness, threads, script,
                   messages, it, msg, result>>

LoopNext == For \/ Await \/ AppendResult

LoopSpec == LoopInit /\ [][LoopNext]_vars

----------------------------------------------------------------------------
(* The example scripts run as __main__: basic_examples, openai_examples and *)
(* anthropic_examples. What the provider's client and the chain do is       *)
(* outside the scripts: constructing a client and invoking a chain each     *)
(* either returns or raises.                                                *)

Programs == {"basic_examples", "openai_examples", "anthropic_examples"}

\* os.getenv of the API key: unset, set to the empty string, or set.
ApiKeys == {None, Str(""), Str("sk-test")}

\* A dict literal, as its items in the order they are written.
OPENAI_MODELS ==
    << <<"gpt4o", "gpt-4o">>,
       <<"gpt4o_mini", "gpt-4o-mini">>,
       <<"gpt5", "gpt-5">>,
       <<"gpt5_mini", "gpt-5-mini">>,
       <<"gpt5_chat", "gpt-5-chat-latest">> >>

CLAUDE_MODELS ==
    << <<"haiku3", "claude-3-haiku-20240307">>,
       <<"haiku35", "claude-3-5-haiku-20241022">>,
       <<"sonnet35", "claude-3-5-sonnet-20241022">>,
       <<"sonnet37", "claude-3-7-sonnet-20250219">>,
       <<"sonnet4", "claude-sonnet-4-20250514">>,
       <<"opus4", "claude-opus-4-20250514">>,
       <<"opus41", "claude-opus-4-1-20250805">> >>

keys(table) == {table[i][1] : i \in 1 .. Len(table)}

\* list(table.values())
values(table) == [i \in 1 .. Len(table) |-> table[i][2]]

\* table[k]: the value, or KeyError where the table has no such key.
getitem(table, k) ==
    IF k \in keys(table)
    THEN [exc |-> "none",
          value |-> table[CHOOSE i \in 1 .. Len(table) : table[i][1] = k][2]]
    ELSE [exc |-> "KeyError", value |-> k]

\* The model= argument of the client that main() constructs.
MainModel(p) ==
    CASE p = "basic_examples" -> [exc |-> "none", value |-> "gpt-3.5-turbo"]
      [] p = "openai_examples" -> getitem(OPENAI_MODELS, "gpt4o_mini")
      [] p = "anthropic_examples" -> getitem(CLAUDE_MODELS, "haiku")

concepts == <<"machine learning", "blockchain", "quantum computing">>

\* The functions the script's __main__ block calls, in order.
MainBlock(p) ==
    CASE p = "basic_examples" -> <<"test_without_api", "main">>
      [] p = "openai_examples" ->
            <<"test_without_api", "main", "demo_advanced_openai">>
      [] p = "anthropic_examples" ->
            <<"test_without_api", "main", "demo_advanced_anthropic">>

\* not os.getenv(...), were only an unset variable taken as missing.
key_missing_if_unset(v) == v = None

\* not os.getenv(...)
key_missing(v) == ~Truthy(v)

ScriptInit ==
    /\ token_usage = TokenUsageCallback.token_usage
    /\ input_tokens = TokenUsageCallback.input_tokens
    /\ output_tokens = TokenUsageCallback.output_tokens
    /\ total_tokens = TokenUsageCallback.total_tokens
    /\ called = Call("__init__", <<>>, "returned", <<>>)
    /\ previous = Call("none", <<>>, "returned", <<>>)
    /\ IdleThreads
    /\ IdleLoop
    /\ prog \in Programs
    /\ api_key \in ApiKeys
    /\ fn = "__main__"
    /\ ip = "returned"
    /\ idx = 0
    /\ constructed = <<>>
    /\ invoked = <<>>
    /\ printed = <<>>

Rest == <<fields, harness, threads, loop, prog, api_key>>

print(line) == printed' = Append(printed, line)

Return == ip' = "returned" /\ UNCHANGED fn

\* The __main__ block calls its next function, or the script ends.
CallNext ==
    /\ ip = "returned"
    /\ LET block == <<"__main__">> \o MainBlock(prog)
           n == CHOOSE i \in 1 .. Len(block) : block[i] = fn
       IN  IF n < Len(block)
           THEN fn' = block[n + 1] /\ ip' = "entry"
           ELSE fn' = "exit" /\ ip' = "exit"
    /\ idx' = 0 /\ constructed' = <<>> /\ invoked' = <<>> /\ printed' = <<>>
    /\ UNCHANGED Rest

\* test_without_api: it formats a prompt and parses a message, and calls
\* neither a client constructor nor a chain.
test_without_api ==
    /\ fn = "test_without_api" /\ ip = "entry"
    /\ printed' = <<"Testing LangChain components", "Prompt formatting works",
                    "Output parsing works", "Component tests passed">>
    /\ Return
    /\ UNCHANGED <<Rest, idx, constructed, invoked>>

\* main: the check of the API key.
MainCheckKey ==
    /\ fn = "main" /\ ip = "entry"
    /\ IF key_missing(api_key)
       THEN print("API key not found") /\ Return
       ELSE ip' = "setup" /\ UNCHANGED <<fn, printed>>
    /\ UNCHANGED <<Rest, idx, constructed, invoked>>

\* main: the client, the prompt, the parser and the chain are made; what
\* raises here is caught by the outer handler, which ends main.
MainSetup ==
    /\ fn = "main" /\ ip = "setup"
    /\ LET model == MainModel(prog)
       IN  IF model.exc # "none"
           THEN /\ print("Setup error: " \o model.exc)
                /\ Return
                /\ UNCHANGED constructed
           ELSE \E raises \in BOOLEAN :
                  /\ constructed' =
                       Append(constructed,
                              [model |-> model.value, raised |-> raises])
                  /\ IF raises
                     THEN print("Setup error: Exception") /\ Return
                     ELSE /\ print("Testing LangChain setup")
                          /\ ip' = "loop" /\ UNCHANGED fn
    /\ idx' = 0
    /\ UNCHANGED <<Rest, invoked>>

\* main: one pass of for concept in concepts; an exception of chain.invoke
\* is caught inside the loop.
MainLoop ==
    /\ fn = "main" /\ ip = "loop" /\ idx < Len(concepts)
    /\ \E raises \in BOOLEAN :
         /\ invoked' = Append(invoked,
                              [item |-> concepts[idx + 1], raised |-> raises])
         /\ printed' = printed \o <<"Explaining: " \o concepts[idx + 1],
                                    IF raises THEN "Error" ELSE "Response">>
    /\ idx' = idx + 1
    /\ UNCHANGED <<Rest, fn, ip, constructed>>

\* main: the loop is over.
MainDone ==
    /\ fn = "main" /\ ip = "loop" /\ idx = Len(concepts)
    /\ print("setup test completed")
    /\ Return
    /\ UNCHANGED <<Rest, idx, constructed, invoked>>

\* demo_advanced_openai and demo_advanced_anthropic: the check of the API
\* key, and models = list(....values()).
DemoCheckKey ==
    /\ fn \in {"demo_advanced_openai", "demo_advanced_anthropic"}
    /\ ip = "entry"
    /\ IF key_missing(api_key)
       THEN print("API key not found - skipping advanced demo") /\ Return
       ELSE print("Testing advanced features") /\ ip' = "loop"
            /\ UNCHANGED fn
    /\ UNCHANGED <<Rest, idx, constructed, invoked>>

\* What one pass of a model loop does with the client and the chain: the
\* constructor raises, or the chain is invoked and raises or returns.
Attempt(model, outcome) ==
    /\ constructed' = Append(constructed,
                             [model |-> model,
                              raised |-> outcome = "constructor raises"])
    /\ invoked' = IF outcome = "constructor raises" THEN invoked
                  ELSE Append(invoked,
                              [item |-> model,
                               raised |-> outcome = "invoke raises"])

Outcomes == {"constructor raises", "invoke raises", "returns"}

\* demo_advanced_anthropic: one pass of for model in models; the body is in
\* a try of its own, so an exception is printed and the loop goes on.
DemoLoopAnthropic ==
    /\ fn = "demo_advanced_anthropic" /\ ip = "loop"
    /\ idx < Len(values(CLAUDE_MODELS))
    /\ \E outcome \in Outcomes :
         LET model == values(CLAUDE_MODELS)[idx + 1]
         IN  /\ Attempt(model, outcome)
             /\ print((IF outcome = "returns" THEN "ok: " ELSE "error: ")
                      \o model)
    /\ idx' = idx + 1
    /\ UNCHANGED <<Rest, fn, ip>>

\* demo_advanced_openai: one pass of for model in models; the body is in no
\* try of its own, so an exception leaves the loop for the handler of the
\* function, which ends it.
DemoLoopOpenAI ==
    /\ fn = "demo_advanced_openai" /\ ip = "loop"
    /\ idx < Len(values(OPENAI_MODELS))
    /\ \E outcome \in Outcomes :
         LET model == values(OPENAI_MODELS)[idx + 1]
         IN  /\ Attempt(model, outcome)
             /\ IF outcome = "returns"
                THEN /\ printed' = printed \o <<"Testing model: " \o model,
                                               "ok: " \o model>>
                     /\ UNCHANGED <<fn, ip>>
                ELSE /\ printed' = printed \o <<"Testing model: " \o model,
                                               "Advanced demo error">>
                     /\ Return
    /\ idx' = idx + 1
    /\ UNCHANGED Rest

\* The table whose values the demo function goes through.
DemoModels ==
    IF fn = "demo_advanced_openai" THEN values(OPENAI_MODELS)
    ELSE values(CLAUDE_MODELS)

\* demo_advanced_openai and demo_advanced_anthropic: the loop is over.
DemoDone ==
    /\ fn \in {"demo_advanced_openai", "demo_advanced_anthropic"}
    /\ ip = "loop" /\ idx = Len(DemoModels)
    /\ print("Advanced features tested")
    /\ Return
    /\ UNCHANGED <<Rest, idx, constructed, invoked>>

ScriptNext ==
    \/ CallNext \/ test_without_api
    \/ MainCheckKey \/ MainSetup \/ MainLoop \/ MainDone
    \/ DemoCheckKey \/ DemoLoopAnthropic \/ DemoLoopOpenAI \/ DemoDone

ScriptSpec == ScriptInit /\ [][ScriptNext]_vars

----------------------------------------------------------------------------
(* Reading the claims' cases off a call *)

\* Whether the response exposes a usage mapping: llm_output is a dict whose
\* 'token_usage' entry is a dict.
HasUsageMapping(response) ==
    /\ response.has_llm_output
    /\ response.llm_output.type = "dict"
    /\ "token_usage" \in DOMAIN response.llm_output.items
    /\ response.llm_output.items["token_usage"].type = "dict"

UsageOf(response) == response.llm_output.items["token_usage"].items

\* The call c is on_llm_end given a usage mapping.
Recorded(c) == c.op = "on_llm_end" /\ HasUsageMapping(c.args[1])

\* The keys of the three counts that the mapping m has.
Known(m) == DOMAIN m \cap KnownKeys

IsDigit(ch) == \E d \in 1 .. 10 : Digits[d] = ch
DigitValue(ch) == (CHOOSE d \in 1 .. 10 : Digits[d] = ch) - 1

\* The numbers written in the text s, in the order they appear: each
\* maximal run of digits read as a decimal number.
RECURSIVE Scan(_, _, _, _)
Scan(s, i, run, seen) ==
    IF i > Len(s)
    THEN IF run >= 0 THEN Append(seen, run) ELSE seen
    ELSE IF IsDigit(s[i])
         THEN Scan(s, i + 1,
                   (IF run >= 0 THEN 10 * run ELSE 0) + DigitValue(s[i]), seen)
         ELSE Scan(s, i + 1, -1, IF run >= 0 THEN Append(seen, run) ELSE seen)

Numbers(s) == Scan(s, 1, -1, <<>>)

\* The text is a bracketed fragment: it opens with " [" and closes with "]".
Bracketed(s) == Len(s) > 3 /\ s[1] = " " /\ s[2] = "[" /\ s[Len(s)] = "]"

----------------------------------------------------------------------------
(* Claims *)

\* C1: after on_llm_end is given a usage mapping {prompt_tokens: a,
\* completion_tokens: b, total_tokens: c} of non-negative integers (all three
\* 0 included), get_usage_string returns a non-empty fragment in which a, b
\* and c are the numbers written, in that order.
C1_FullUsageIsFormatted ==
    (called.op = "get_usage_string" /\ Recorded(previous)
     /\ DOMAIN UsageOf(previous.args[1]) = KnownKeys)
    => LET m == UsageOf(previous.args[1])
       IN  /\ called.ret # <<>>
           /\ Numbers(called.ret) = <<m["prompt_tokens"],
                                      m["completion_tokens"],
                                      m["total_tokens"]>>

\* C1 witness: the usage string was asked for after a mapping of three zero
\* counts was recorded, and is not empty.
C1_Witness ==
    /\ called.op = "get_usage_string"
    /\ Recorded(previous)
    /\ UsageOf(previous.args[1]) = [k \in KnownKeys |-> 0]
    /\ Numbers(called.ret) = <<0, 0, 0>>

\* The response has no llm_output attribute, or its llm_output is None or
\* empty.
NoLlmOutput(response) ==
    \/ ~response.has_llm_output
    \/ response.llm_output.type = "NoneType"
    \/ response.llm_output = Dict(EmptyItems)

\* The response's llm_output is a non-empty dict with no 'token_usage' key.
NoTokenUsageKey(response) ==
    /\ response.has_llm_output
    /\ response.llm_output.type = "dict"
    /\ DOMAIN response.llm_output.items # {}
    /\ "token_usage" \notin DOMAIN response.llm_output.items

C3_NeverRaises ==
    called.op = "on_llm_end"
    => /\ called.outcome = "returned"
       /\ (~NoLlmOutput(called.args[1]) /\ ~HasUsageMapping(called.args[1]))
          => Self = TokenUsageCallback

\* C5: on_llm_end given a usage mapping m1 and then a usage mapping m2 leaves
\* the recorder as one call with m2 leaves a new recorder: the counts are
\* those of m2, not sums, and the stored dict is m2.
C5_LastWriteWins ==
    (Recorded(called) /\ Recorded(previous))
    => /\ Self = on_llm_end(TokenUsageCallback, called.args[1]).self
       /\ token_usage = UsageOf(called.args[1])

\* C5 witness: a mapping of three non-zero counts was recorded, then a
\* mapping with a non-zero prompt_tokens alone, and the counts are the
\* second mapping's.
C5_Witness ==
    /\ Recorded(called) /\ Recorded(previous)
    /\ LET m1 == UsageOf(previous.args[1])
           m2 == UsageOf(called.args[1])
       IN  /\ DOMAIN m1 = KnownKeys /\ \A k \in KnownKeys : m1[k] # 0
           /\ DOMAIN m2 = {"prompt_tokens"} /\ m2["prompt_tokens"] # 0
           /\ input_tokens = m2["prompt_tokens"]

\* The stored record has a non-zero count or a non-empty raw mapping.
HasUsage ==
    \/ input_tokens # 0 \/ output_tokens # 0 \/ total_tokens # 0
    \/ DOMAIN token_usage # {}

\* C6: in every state that __init__, on_llm_end and reset lead to,
\* get_usage_string returns a bracketed fragment with the input, output and
\* total counts in that order if a count is non-zero or the raw mapping is
\* not empty, and the empty string otherwise.
C6_UsageStringContract ==
    called.op = "get_usage_string"
    => IF HasUsage
       THEN /\ Bracketed(called.ret)
            /\ Numbers(called.ret)
               = <<input_tokens, output_tokens, total_tokens>>
       ELSE called.ret = <<>>

\* C6 witness: the usage string of a recorder whose raw mapping is not
\* empty and whose three counts are zero is a fragment.
C6_Witness ==
    /\ called.op = "get_usage_string"
    /\ DOMAIN token_usage # {}
    /\ input_tokens = 0 /\ output_tokens = 0 /\ total_tokens = 0
    /\ Bracketed(called.ret)

\* C7: reset leaves the recorder as __init__ leaves it, whatever it held;
\* get_usage_string of a new or newly reset recorder is the empty string;
\* and a second reset changes nothing.
C7_ResetRestoresInitial ==
    /\ called.op = "reset"
       => Self = TokenUsageCallback /\ get_usage_string(Self) = <<>>
    /\ (called.op = "get_usage_string" /\ previous.op \in {"reset", "__init__"})
       => called.ret = <<>>
    /\ reset(reset(Self)) = reset(Self)

\* C7 witness: a recorder that held a mapping of three non-zero counts was
\* reset.
C7_Witness ==
    /\ called.op = "reset"
    /\ Recorded(previous)
    /\ \A k \in KnownKeys :
          k \in DOMAIN UsageOf(previous.args[1])
          /\ UsageOf(previous.args[1])[k] # 0
    /\ DOMAIN token_usage = {}

\* C8: on_llm_end given a usage mapping with some but not all of the three
\* keys stores the value of each key it has and 0 for each it lacks,
\* whatever the recorder held.
C8_PartialUsageDefaultsToZero ==
    (Recorded(called)
     /\ Known(UsageOf(called.args[1])) \notin {{}, KnownKeys})
    => LET m == UsageOf(called.args[1])
           Expect(k) == IF k \in DOMAIN m THEN m[k] ELSE 0
       IN  /\ input_tokens = Expect("prompt_tokens")
           /\ output_tokens = Expect("completion_tokens")
           /\ total_tokens = Expect("total_tokens")

\* C8 witness: a recorder that held a non-zero output count was given a
\* mapping without completion_tokens, and its output count is 0.
C8_Witness ==
    /\ Recorded(called) /\ Recorded(previous)
    /\ get(UsageOf(previous.args[1]), "completion_tokens", 0) # 0
    /\ Known(UsageOf(called.args[1])) = {"prompt_tokens", "total_tokens"}
    /\ output_tokens = 0

\* C9: the stored and the formatted total is the mapping's total_tokens
\* entry as given, also where it differs from prompt_tokens +
\* completion_tokens; with no total_tokens entry the stored total is 0.
C9_TotalVerbatim ==
    Recorded(called)
    => LET m == UsageOf(called.args[1])
       IN  IF "total_tokens" \in DOMAIN m
           THEN /\ total_tokens = m["total_tokens"]
                /\ Numbers(get_usage_string(Self))[3] = m["total_tokens"]
           ELSE total_tokens = 0

\* C9 witness: a mapping was recorded whose total_tokens is not the sum of
\* its two other counts.
C9_Witness ==
    /\ Recorded(called)
    /\ DOMAIN UsageOf(called.args[1]) = KnownKeys
    /\ LET m == UsageOf(called.args[1])
       IN  /\ m["total_tokens"] # m["prompt_tokens"] + m["completion_tokens"]
           /\ m["prompt_tokens"] + m["completion_tokens"] # 0
           /\ total_tokens = m["total_tokens"]

\* Every thread's call has returned, and each was given a usage mapping.
AllRecorded ==
    \A t \in Threads : pc[t] = "done" /\ HasUsageMapping(arg[t])

\* C4: when on_llm_end calls of several threads on one recorder interleave,
\* then once all have returned the four fields are those of the call that
\* returned last: no field is left from another call.
C4_LatestCallWins ==
    AllRecorded
    => Self = capture(TokenUsageCallback,
                      UsageOf(arg[finished[Len(finished)]]))

\* C10: the loop that awaits process_message for each message in turn ends
\* with one result for each message, in the order of the messages, each the
\* processed form of its message; until then the results are those of the
\* messages taken so far.
C10_ResultsInInputOrder ==
    /\ Len(results) <= Len(messages)
    /\ \A i \in 1 .. Len(results) :
          results[i] = "Processed: " \o messages[i].content
    /\ at = "done" => Len(results) = Len(messages)

\* C10 witness: the loop has ended on the three messages of the test.
C10_Witness ==
    /\ at = "done"
    /\ messages = <<[type |-> "human", content |-> "Hello"],
                    [type |-> "ai", content |-> "Hi there!"],
                    [type |-> "human", content |-> "How are you?"]>>
    /\ results = <<"Processed: Hello", "Processed: Hi there!",
                   "Processed: How are you?">>

\* C12: in every state that __init__, on_llm_end and reset lead to, each
\* count is the stored mapping's entry for its key, or 0 where the mapping
\* has no such entry; so a non-zero count comes with a non-empty mapping and
\* get_usage_string shows it.
C12_CountsAgreeWithUsage ==
    /\ input_tokens = get(token_usage, "prompt_tokens", 0)
    /\ output_tokens = get(token_usage, "completion_tokens", 0)
    /\ total_tokens = get(token_usage, "total_tokens", 0)
    /\ (input_tokens # 0 \/ output_tokens # 0 \/ total_tokens # 0)
       => /\ DOMAIN token_usage # {}
          /\ get_usage_string(Self) # <<>>

\* C12 witness: a recorder that held three non-zero counts was given a
\* mapping with a non-zero completion_tokens alone and holds that count.
C12_Witness ==
    /\ Recorded(called) /\ Recorded(previous)
    /\ input_tokens = 0 /\ output_tokens # 0 /\ total_tokens = 0
    /\ \A k \in KnownKeys : get(UsageOf(previous.args[1]), k, 0) # 0
    /\ DOMAIN token_usage = {"completion_tokens"}

DemoFunctions == {"demo_advanced_openai", "demo_advanced_anthropic"}

\* C11: with the API key unset or empty, main and the demo_advanced
\* functions return after printing the warning alone, having constructed no
\* client and invoked no chain; test_without_api constructs no client and
\* invokes no chain whatever the key is, and ends with its last message.
C11_NoKeyNoApiCall ==
    /\ (fn \in {"main"} \cup DemoFunctions /\ ~Truthy(api_key)
        /\ ip # "entry")
       => /\ ip = "returned"
          /\ Len(printed) = 1
          /\ constructed = <<>> /\ invoked = <<>>
    /\ fn = "test_without_api"
       => /\ constructed = <<>> /\ invoked = <<>>
          /\ ip = "returned"
             => printed[Len(printed)] = "Component tests passed"

\* C11 witness: main has returned in a run whose API key is the empty string.
C11_Witness ==
    /\ fn = "main" /\ ip = "returned"
    /\ api_key = Str("")
    /\ printed = <<"API key not found">>

\* The items of the chain.invoke calls made, in order.
InvokedItems == [i \in 1 .. Len(invoked) |-> invoked[i].item]

\* The models of the clients whose construction was tried, in order.
AttemptedModels == [i \in 1 .. Len(constructed) |-> constructed[i].model]

\* C13: in main of basic_examples and openai_examples, once the key is
\* present and the client is constructed, the chain is invoked once for each
\* of the three concepts in order and the completion message is printed,
\* whichever invocations raise; and the model loop of each demo_advanced
\* function attempts every model of its table, whichever attempts raise.
C13_EveryItemAttempted ==
    /\ (prog \in {"basic_examples", "openai_examples"} /\ fn = "main"
        /\ ip = "returned" /\ Len(constructed) = 1 /\ ~constructed[1].raised)
       => /\ InvokedItems = concepts
          /\ printed[Len(printed)] = "setup test completed"
    /\ (fn \in DemoFunctions /\ ip = "returned" /\ Truthy(api_key))
       => AttemptedModels = DemoModels

\* C13, for main of basic_examples and openai_examples and for
\* demo_advanced_anthropic alone.
C13_ExceptDemoOpenAI ==
    /\ (prog \in {"basic_examples", "openai_examples"} /\ fn = "main"
        /\ ip = "returned" /\ Len(constructed) = 1 /\ ~constructed[1].raised)
       => /\ InvokedItems = concepts
          /\ printed[Len(printed)] = "setup test completed"
    /\ (fn = "demo_advanced_anthropic" /\ ip = "returned" /\ Truthy(api_key))
       => AttemptedModels = DemoModels

\* C14: every key with which a script indexes its model table is a key of
\* the table, so main with the API key set gets as far as constructing its
\* client, and does not end in the outer handler with a KeyError.
C14_ModelKeysExist ==
    (prog \in {"openai_examples", "anthropic_examples"} /\ fn = "main"
     /\ ip = "returned" /\ Truthy(api_key))
    => /\ MainModel(prog).exc = "none"
       /\ Len(constructed) = 1
       /\ printed # <<"Setup error: KeyError">>

\* C14, for openai_examples alone.
C14_OpenAIModelKeyExists ==
    (prog = "openai_examples" /\ fn = "main" /\ ip = "returned"
     /\ Truthy(api_key))
    => /\ MainModel(prog).exc = "none"
       /\ Len(constructed) = 1
       /\ printed # <<"Setup error: KeyError">>

====
